---- MODULE Spec2Model ----
(***************************************************************************)
(* Calibration factor K for the PV production of Antony.                   *)
(*                                                                         *)
(*   calibrate.py : trajectory calibration (main, compute_K_exponential,   *)
(*                  compute_K_linear, get_annual_irradiance_kwh_per_kwp)   *)
(*   sol-val.py   : ratio calibration (calibrate)                          *)
(*                                                                         *)
(* Python floats are modelled as exact rationals <<n, d>> in lowest terms  *)
(* with d > 0.  The inputs are chosen so that every intermediate value of  *)
(* the code is rational (see Grown).  A missing sample / a null field      *)
(* (Python None) is the empty tuple, a present value v is <<v>>.           *)
(***************************************************************************)
EXTENDS Integers, Sequences, FiniteSets, TLC

VARIABLES
    \* ---- calibrate.py main() ----
    pc,          \* position in main(): "register", "irradiance", "loop", "reduce", "done", "raised"
    yr,          \* loop variable y of the loop main() is in
    cap,         \* dict cap: year -> kW
    energy,      \* dict energy: year -> kWh
    H,           \* dict H: year -> kWh/kWp
    K_exp_list,  \* list of per-year K (exponential law)
    K_lin_list,  \* list of per-year K (linear law)
    report,      \* the table rows printed by the calibration loop
    summary,     \* the statistics printed by the reduction
    err,         \* the exception that ended main(), "" when none
    archive,     \* the irradiance provider: year -> hourly series it serves
    \* ---- direct calls of the calibrate.py functions ----
    arg,         \* the arguments of the call
    ret,         \* what the call did
    \* ---- sol-val.py calibrate() ----
    rpc,         \* position in calibrate()
    p_ant_total, p_idf_total, R_cap, e_idf_total_eco, e_ant_naive, e_ant_enedis, K,
    rerr         \* the exception that ended calibrate(), "" when none

mainVars == <<pc, yr, cap, energy, H, K_exp_list, K_lin_list, report, summary, err, archive>>
callVars == <<arg, ret>>
ratioVars == <<rpc, p_ant_total, p_idf_total, R_cap, e_idf_total_eco, e_ant_naive,
               e_ant_enedis, K, rerr>>
vars == <<mainVars, callVars, ratioVars>>

-----------------------------------------------------------------------------
(* Exact arithmetic standing for Python's float arithmetic *)

None == <<>>
Some(v) == <<v>>

Abs(x) == IF x < 0 THEN -x ELSE x

RECURSIVE GCD(_, _)
GCD(a, b) == IF b = 0 THEN a ELSE GCD(b, a % b)

\* n / d in lowest terms, d # 0
Rat(n, d) ==
    LET g == GCD(Abs(n), Abs(d))
        s == IF d < 0 THEN -1 ELSE 1
    IN  <<(s * n) \div g, (s * d) \div g>>

Zero == <<0, 1>>
Int2Rat(n) == <<n, 1>>
RAdd(a, b) == Rat(a[1] * b[2] + b[1] * a[2], a[2] * b[2])
RSub(a, b) == Rat(a[1] * b[2] - b[1] * a[2], a[2] * b[2])
RMul(a, b) == Rat(a[1] * b[1], a[2] * b[2])
RDiv(a, b) == Rat(a[1] * b[2], a[2] * b[1])
RLt(a, b) == a[1] * b[2] < b[1] * a[2]
RLeq(a, b) == a[1] * b[2] <= b[1] * a[2]

RECURSIVE Pow(_, _)
Pow(b, e) == IF e = 0 THEN 1 ELSE b * Pow(b, e - 1)

\* the exact n-th root of a positive integer that has one
IRoot(x, n) == CHOOSE r \in 1..x : Pow(r, n) = x

\* r ^ t for a positive rational r and a rational t >= 0
RPow(r, t) == Rat(Pow(IRoot(r[1], t[2]), t[1]), Pow(IRoot(r[2], t[2]), t[1]))

RECURSIVE RSum(_)
RSum(s) == IF s = <<>> THEN Zero ELSE RAdd(Head(s), RSum(Tail(s)))

-----------------------------------------------------------------------------
(* Bounds and input domains *)

\* longest irradiance series of a direct call (the code's series have ~8760 samples)
MaxLen == 3
\* number of calibration years of the batch (the code's has END_YEAR - START_YEAR = 7)
MaxYears == 2

START_YEAR == 2017
END_YEAR == START_YEAR + MaxYears

RECURSIVE LcmUpTo(_)
LcmUpTo(n) == IF n <= 1 THEN 1 ELSE LET l == LcmUpTo(n - 1) IN (l * n) \div GCD(l, n)

\* A capacity (kW) all of whose roots C^(i/(N-1)), N <= MaxLen, are integers, so that
\* the exponential trajectory between 1 kW and Grown kW is rational at every sample.
Grown == Pow(2, LcmUpTo(MaxLen - 1))

\* hourly samples in W/m2
Samples == {None, Some(0), Some(500), Some(1000)}

RECURSIVE SeqsUpTo(_, _)
SeqsUpTo(S, n) ==
    IF n = 0 THEN {<<>>}
    ELSE LET shorter == SeqsUpTo(S, n - 1)
         IN  shorter \cup {Append(q, x) : q \in {t \in shorter : Len(t) = n - 1}, x \in S}

\* the series of a direct call
Series == SeqsUpTo(Samples, MaxLen)

\* the arguments of a direct call
CallCapacities == {-1, 0, 1, Grown}
CallEnergies == {-6, 0, 6}

-----------------------------------------------------------------------------
(* calibrate.py: the functions *)

Raise(e) == [raised |-> TRUE, err |-> e, value |-> Zero, denom |-> Zero]
Return(x, d) == [raised |-> FALSE, err |-> "", value |-> x, denom |-> d]

\* get_annual_irradiance_series: what the provider served, or "No irradiance data"
NoIrradiance(gti) == gti = <<>>

\* sample v (W/m2) as kWh per kWp of one hour: v / 1000.0
PerKwpUnscaled(v) == Int2Rat(v[1])

PerKwp(v) == Rat(v[1], 1000)

\* get_annual_irradiance_kwh_per_kwp: the for loop from sample i (0-based) on
RECURSIVE TotalFrom(_, _)
TotalFrom(gti, i) ==
    IF i >= Len(gti) THEN Zero
    ELSE LET v == gti[i + 1]
         IN  IF v = None THEN TotalFrom(gti, i + 1)
             ELSE RAdd(PerKwp(v), TotalFrom(gti, i + 1))

get_annual_irradiance_kwh_per_kwp(gti) ==
    IF NoIrradiance(gti) THEN Raise("RuntimeError: No irradiance data")
    ELSE Return(TotalFrom(gti, 0), Zero)

\* tau = i / (N - 1) if N > 1 else 0.0, with N = len(gti) and i the index enumerate gives
TauByPresent(gti, i) ==
    LET present == Cardinality({j \in 1..Len(gti) : gti[j] # None})
        before == Cardinality({j \in 1..i : gti[j] # None})
    IN  IF present > 1 THEN Rat(before, present - 1) ELSE Zero

Tau(gti, i) ==
    LET N == Len(gti)
    IN  IF N > 1 THEN Rat(i, N - 1) ELSE Zero

\* k = math.log(C_curr_kw / C_prev_kw): the model keeps the argument of the logarithm,
\* GrowthRate stands for its logarithm
GrowthRate(C_prev_kw, C_curr_kw) == RDiv(C_curr_kw, C_prev_kw)

\* C_t = C_prev_kw * math.exp(k * tau), i.e. C_prev_kw * (C_curr_kw / C_prev_kw) ^ tau
ExponentialCapacity(C_prev_kw, k, tau) == RMul(C_prev_kw, RPow(k, tau))

\* C_t = C_prev_kw + (C_curr_kw - C_prev_kw) * tau
LinearCapacity(C_prev_kw, C_curr_kw, tau) ==
    RAdd(C_prev_kw, RMul(RSub(C_curr_kw, C_prev_kw), tau))

\* compute_K_exponential: the for loop from sample i (0-based) on
RECURSIVE ExponentialDenom(_, _, _, _)
ExponentialDenom(gti, i, C_prev_kw, k) ==
    IF i >= Len(gti) THEN Zero
    ELSE LET v == gti[i + 1]
             rest == ExponentialDenom(gti, i + 1, C_prev_kw, k)
         IN  IF v = None THEN rest
             ELSE RAdd(RMul(ExponentialCapacity(C_prev_kw, k, Tau(gti, i)), PerKwp(v)), rest)

\* compute_K_linear: the for loop from sample i (0-based) on
RECURSIVE LinearDenom(_, _, _, _)
LinearDenom(gti, i, C_prev_kw, C_curr_kw) ==
    IF i >= Len(gti) THEN Zero
    ELSE LET v == gti[i + 1]
             rest == LinearDenom(gti, i + 1, C_prev_kw, C_curr_kw)
         IN  IF v = None THEN rest
             ELSE RAdd(RMul(LinearCapacity(C_prev_kw, C_curr_kw, Tau(gti, i)), PerKwp(v)), rest)

compute_K_exponential(C_prev_kw, C_curr_kw, E_kwh, gti) ==
    IF RLeq(C_prev_kw, Zero) \/ RLeq(C_curr_kw, Zero)
    THEN Raise("ValueError: Non-positive capacity")
    ELSE IF RLeq(E_kwh, Zero) THEN Raise("ValueError: Non-positive energy")
    ELSE IF NoIrradiance(gti) THEN Raise("RuntimeError: No irradiance data")
    ELSE LET denom == ExponentialDenom(gti, 0, C_prev_kw, GrowthRate(C_prev_kw, C_curr_kw))
         IN  IF RLeq(denom, Zero)
             THEN [Raise("RuntimeError: Computed zero or negative denom") EXCEPT !.denom = denom]
             ELSE Return(RDiv(E_kwh, denom), denom)

compute_K_linear(C_prev_kw, C_curr_kw, E_kwh, gti) ==
    IF NoIrradiance(gti) THEN Raise("RuntimeError: No irradiance data")
    ELSE LET denom == LinearDenom(gti, 0, C_prev_kw, C_curr_kw)
         IN  IF RLeq(denom, Zero)
             THEN [Raise("RuntimeError: Denom=0") EXCEPT !.denom = denom]
             ELSE Return(RDiv(E_kwh, denom), denom)

-----------------------------------------------------------------------------
(* Direct calls of the functions, with arguments drawn from the input domains *)

Idle == [fn |-> "", raised |-> FALSE, err |-> "", value |-> Zero, denom |-> Zero]
Called(fn, r) == [fn |-> fn, raised |-> r.raised, err |-> r.err, value |-> r.value,
                  denom |-> r.denom]

NoArg == [C_prev_kw |-> Zero, C_curr_kw |-> Zero, E_kwh |-> Zero, gti |-> <<>>]

CallInit ==
    /\ arg \in [C_prev_kw : {Int2Rat(c) : c \in CallCapacities},
                C_curr_kw : {Int2Rat(c) : c \in CallCapacities},
                E_kwh : {Int2Rat(e) : e \in CallEnergies},
                gti : Series]
    /\ ret = Idle

CallExponential ==
    /\ ret = Idle
    /\ ret' = Called("compute_K_exponential",
                     compute_K_exponential(arg.C_prev_kw, arg.C_curr_kw, arg.E_kwh, arg.gti))
    /\ UNCHANGED arg

CallLinear ==
    /\ ret = Idle
    /\ ret' = Called("compute_K_linear",
                     compute_K_linear(arg.C_prev_kw, arg.C_curr_kw, arg.E_kwh, arg.gti))
    /\ UNCHANGED arg

CallAnnualIrradiance ==
    /\ ret = Idle
    /\ ret' = Called("get_annual_irradiance_kwh_per_kwp",
                     get_annual_irradiance_kwh_per_kwp(arg.gti))
    /\ UNCHANGED arg

-----------------------------------------------------------------------------
(* calibrate.py: main() *)

\* what the register and the irradiance provider can answer in the model
RegisterCapacities == {None, Some(1), Some(Grown)}
RegisterEnergies == {None, Some(6)}
\* (the last series has a present sample inside the year, where the two laws differ)
ArchiveSeries == {<<>>, <<None>>, <<Some(1000)>>, <<None, Some(1000), Some(500)>>}

\* float(row[f]) if row[f] is not None else 0.0
FloatOrZero(x) == IF x = None THEN Zero ELSE Int2Rat(x[1])

\* range(START_YEAR + 1, END_YEAR + 1), which is the loop's range(2018, 2025)
CalibrationYears == (START_YEAR + 1)..END_YEAR

\* if C_prev <= 0 or C_curr <= 0 or E_y <= 0
MissingDataCapacityOnly(C_prev, C_curr, E_y) == RLeq(C_prev, Zero) \/ RLeq(C_curr, Zero)

MissingData(C_prev, C_curr, E_y) ==
    RLeq(C_prev, Zero) \/ RLeq(C_curr, Zero) \/ RLeq(E_y, Zero)

\* sorted(xs), ascending
RECURSIVE Insert(_, _)
Insert(x, s) ==
    IF s = <<>> THEN <<x>>
    ELSE IF RLeq(x, Head(s)) THEN <<x>> \o s
    ELSE <<Head(s)>> \o Insert(x, Tail(s))

unsorted(xs) == xs

RECURSIVE sorted(_)
sorted(xs) == IF xs = <<>> THEN <<>> ELSE Insert(Head(xs), sorted(Tail(xs)))

\* sum(xs) / len(xs)
Mean(xs) == RDiv(RSum(xs), Int2Rat(Len(xs)))

\* sorted(xs)[len(xs) // 2]
MedianLower(xs) == sorted(xs)[((Len(xs) - 1) \div 2) + 1]

Median(xs) == sorted(xs)[(Len(xs) \div 2) + 1]

NoSummary == [has_exp |-> FALSE, avg_exp |-> Zero, med_exp |-> Zero,
              has_lin |-> FALSE, avg_lin |-> Zero, med_lin |-> Zero]

MissingRow(y) == [year |-> y, missing |-> TRUE, K_exp |-> Zero, K_lin |-> Zero]
ResultRow(y, kexp, klin) == [year |-> y, missing |-> FALSE, K_exp |-> kexp, K_lin |-> klin]

MainInit ==
    /\ pc = "register"
    /\ yr = START_YEAR
    /\ cap = <<>>
    /\ energy = <<>>
    /\ H = <<>>
    /\ K_exp_list = <<>>
    /\ K_lin_list = <<>>
    /\ report = <<>>
    /\ summary = NoSummary
    /\ err = ""
    /\ archive = <<>>

\* for y in years: c_kw, e_kwh = get_antony_capacity_and_energy_year(y)
FetchRegister ==
    /\ pc = "register"
    /\ \E c \in RegisterCapacities, e \in RegisterEnergies :
          /\ cap' = cap @@ (yr :> FloatOrZero(c))
          /\ energy' = energy @@ (yr :> FloatOrZero(e))
    /\ IF yr = END_YEAR
       THEN pc' = "irradiance" /\ yr' = START_YEAR + 1
       ELSE pc' = pc /\ yr' = yr + 1
    /\ UNCHANGED <<H, K_exp_list, K_lin_list, report, summary, err, archive>>

\* get_antony_capacity_and_energy_year: the register has no record for the year
FetchRegisterRaises ==
    /\ pc = "register"
    /\ pc' = "raised"
    /\ err' = "RuntimeError: No ODRE records"
    /\ UNCHANGED <<yr, cap, energy, H, K_exp_list, K_lin_list, report, summary, archive>>

\* for y in range(START_YEAR + 1, END_YEAR + 1): H[y] = get_annual_irradiance_kwh_per_kwp(y)
FetchIrradiance ==
    /\ pc = "irradiance"
    /\ \E gti \in ArchiveSeries :
          LET r == get_annual_irradiance_kwh_per_kwp(gti)
          IN  /\ archive' = archive @@ (yr :> gti)
              /\ IF r.raised
                 THEN /\ pc' = "raised"
                      /\ err' = r.err
                      /\ UNCHANGED <<yr, H>>
                 ELSE /\ H' = H @@ (yr :> r.value)
                      /\ err' = err
                      /\ IF yr = END_YEAR
                         THEN pc' = "loop" /\ yr' = START_YEAR + 1
                         ELSE pc' = pc /\ yr' = yr + 1
    /\ UNCHANGED <<cap, energy, K_exp_list, K_lin_list, report, summary>>

\* the loop variable after the body for year yr
NextYear ==
    IF yr = END_YEAR
    THEN pc' = "reduce" /\ yr' = yr
    ELSE pc' = pc /\ yr' = yr + 1

\* for y in range(2018, 2025): the year's inputs fail the check, "(missing data)"
LoopMissing ==
    /\ pc = "loop"
    /\ MissingData(cap[yr - 1], cap[yr], energy[yr])
    /\ report' = Append(report, MissingRow(yr))
    /\ NextYear
    /\ UNCHANGED <<cap, energy, H, K_exp_list, K_lin_list, summary, err, archive>>

\* for y in range(2018, 2025): both K are computed and appended
LoopCalibrate ==
    /\ pc = "loop"
    /\ ~MissingData(cap[yr - 1], cap[yr], energy[yr])
    /\ LET K_exp == compute_K_exponential(cap[yr - 1], cap[yr], energy[yr], archive[yr])
           K_lin == compute_K_linear(cap[yr - 1], cap[yr], energy[yr], archive[yr])
       IN  /\ ~K_exp.raised
           /\ ~K_lin.raised
           /\ K_exp_list' = Append(K_exp_list, K_exp.value)
           /\ K_lin_list' = Append(K_lin_list, K_lin.value)
           /\ report' = Append(report, ResultRow(yr, K_exp.value, K_lin.value))
    /\ NextYear
    /\ UNCHANGED <<cap, energy, H, summary, err, archive>>

\* for y in range(2018, 2025): compute_K_exponential or compute_K_linear raises
LoopRaises ==
    /\ pc = "loop"
    /\ ~MissingData(cap[yr - 1], cap[yr], energy[yr])
    /\ LET K_exp == compute_K_exponential(cap[yr - 1], cap[yr], energy[yr], archive[yr])
           K_lin == compute_K_linear(cap[yr - 1], cap[yr], energy[yr], archive[yr])
       IN  /\ K_exp.raised \/ K_lin.raised
           /\ err' = IF K_exp.raised THEN K_exp.err ELSE K_lin.err
    /\ pc' = "raised"
    /\ UNCHANGED <<yr, cap, energy, H, K_exp_list, K_lin_list, report, summary, archive>>

\* if K_exp_list: ...  if K_lin_list: ...
ReduceMixed ==
    /\ pc = "reduce"
    /\ summary' =
          [has_exp |-> K_exp_list # <<>>,
           avg_exp |-> IF K_exp_list # <<>> THEN Mean(K_exp_list) ELSE Zero,
           med_exp |-> IF K_exp_list # <<>> THEN Median(K_exp_list) ELSE Zero,
           has_lin |-> K_lin_list # <<>>,
           avg_lin |-> IF K_lin_list # <<>> THEN Mean(K_exp_list) ELSE Zero,
           med_lin |-> IF K_lin_list # <<>> THEN Median(K_exp_list) ELSE Zero]
    /\ pc' = "done"
    /\ UNCHANGED <<yr, cap, energy, H, K_exp_list, K_lin_list, report, err, archive>>

Reduce ==
    /\ pc = "reduce"
    /\ summary' =
          [has_exp |-> K_exp_list # <<>>,
           avg_exp |-> IF K_exp_list # <<>> THEN Mean(K_exp_list) ELSE Zero,
           med_exp |-> IF K_exp_list # <<>> THEN Median(K_exp_list) ELSE Zero,
           has_lin |-> K_lin_list # <<>>,
           avg_lin |-> IF K_lin_list # <<>> THEN Mean(K_lin_list) ELSE Zero,
           med_lin |-> IF K_lin_list # <<>> THEN Median(K_lin_list) ELSE Zero]
    /\ pc' = "done"
    /\ UNCHANGED <<yr, cap, energy, H, K_exp_list, K_lin_list, report, err, archive>>

\* The calibration loop run over the first n years of `order` instead of
\* range(2018, 2025): the same body, on the data main() has fetched.
RECURSIVE LoopOver(_, _)
LoopOver(order, n) ==
    IF n = 0 THEN [raised |-> FALSE, years |-> <<>>, K_exp |-> <<>>, K_lin |-> <<>>]
    ELSE LET before == LoopOver(order, n - 1)
             y == order[n]
             kexp == compute_K_exponential(cap[y - 1], cap[y], energy[y], archive[y])
             klin == compute_K_linear(cap[y - 1], cap[y], energy[y], archive[y])
         IN  IF before.raised THEN before
             ELSE IF MissingData(cap[y - 1], cap[y], energy[y]) THEN before
             ELSE IF kexp.raised \/ klin.raised THEN [before EXCEPT !.raised = TRUE]
             ELSE [raised |-> FALSE,
                   years |-> Append(before.years, y),
                   K_exp |-> Append(before.K_exp, kexp.value),
                   K_lin |-> Append(before.K_lin, klin.value)]

\* the statistics the reduction prints for two lists of K
Reduction(kexp, klin) ==
    [has_exp |-> kexp # <<>>,
     avg_exp |-> IF kexp # <<>> THEN Mean(kexp) ELSE Zero,
     med_exp |-> IF kexp # <<>> THEN Median(kexp) ELSE Zero,
     has_lin |-> klin # <<>>,
     avg_lin |-> IF klin # <<>> THEN Mean(klin) ELSE Zero,
     med_lin |-> IF klin # <<>> THEN Median(klin) ELSE Zero]

-----------------------------------------------------------------------------
(* sol-val.py: calibrate() *)

\* what the register, eco2mix and Enedis can answer in the model
AntonyCapacities == {-100, 0, 100, 250}
IdfCapacities == {-10000, 0, 10000}
Eco2mixSums == {-10000, 0, 10000}
EnedisEnergies == {0, 60, 75}

RatioInit ==
    /\ rpc = "capacities"
    /\ p_ant_total = Zero
    /\ p_idf_total = Zero
    /\ R_cap = Zero
    /\ e_idf_total_eco = Zero
    /\ e_ant_naive = Zero
    /\ e_ant_enedis = Zero
    /\ K = Zero
    /\ rerr = ""

\* a / b of two floats: ZeroDivisionError when b is 0.0
DivisionFails(a, b) == b = Zero

\* sum_mw * 0.5
HalfHourly(sum_mw) == Rat(sum_mw, 2)

\* R_cap = p_ant_total / p_idf_total
CapacityRatio ==
    /\ rpc = "capacities"
    /\ \E a \in AntonyCapacities, i \in IdfCapacities :
          /\ p_ant_total' = Int2Rat(a)
          /\ p_idf_total' = Int2Rat(i)
          /\ IF DivisionFails(Int2Rat(a), Int2Rat(i))
             THEN rpc' = "raised" /\ rerr' = "ZeroDivisionError" /\ R_cap' = R_cap
             ELSE rpc' = "eco2mix" /\ rerr' = rerr /\ R_cap' = RDiv(Int2Rat(a), Int2Rat(i))
    /\ UNCHANGED <<e_idf_total_eco, e_ant_naive, e_ant_enedis, K>>

\* e_ant_naive = R_cap * e_idf_total_eco
NaiveEstimate ==
    /\ rpc = "eco2mix"
    /\ \E sum_mw \in Eco2mixSums :
          /\ e_idf_total_eco' = HalfHourly(sum_mw)
          /\ e_ant_naive' = RMul(R_cap, HalfHourly(sum_mw))
    /\ rpc' = "enedis"
    /\ UNCHANGED <<p_ant_total, p_idf_total, R_cap, e_ant_enedis, K, rerr>>

\* K = e_ant_enedis / e_ant_naive
KInverted(trusted, naive) == RDiv(naive, trusted)

Kratio(trusted, naive) == RDiv(trusted, naive)

CalibrationFactor ==
    /\ rpc = "enedis"
    /\ \E e \in EnedisEnergies :
          /\ e_ant_enedis' = Int2Rat(e)
          /\ IF DivisionFails(Int2Rat(e), e_ant_naive)
             THEN rpc' = "raised" /\ rerr' = "ZeroDivisionError" /\ K' = K
             ELSE rpc' = "done" /\ rerr' = rerr /\ K' = Kratio(Int2Rat(e), e_ant_naive)
    /\ UNCHANGED <<p_ant_total, p_idf_total, R_cap, e_idf_total_eco, e_ant_naive>>

\* get_pv_capacity_total_kw, get_eco2mix_idf_produced_mwh, get_enedis_produced_mwh:
\* the answer does not have exactly one row with the expected column
FetchFails ==
    /\ rpc \in {"capacities", "eco2mix", "enedis"}
    /\ rpc' = "raised"
    /\ rerr' = "RuntimeError: Expected 1 row"
    /\ UNCHANGED <<p_ant_total, p_idf_total, R_cap, e_idf_total_eco, e_ant_naive,
                   e_ant_enedis, K>>

-----------------------------------------------------------------------------
(* Specifications *)

CallIdle == arg = NoArg /\ ret = Idle
RatioIdle == RatioInit

\* main() of calibrate.py
Init == MainInit /\ CallIdle /\ RatioIdle
Next ==
    \/ FetchRegister /\ UNCHANGED <<callVars, ratioVars>>
    \/ FetchRegisterRaises /\ UNCHANGED <<callVars, ratioVars>>
    \/ FetchIrradiance /\ UNCHANGED <<callVars, ratioVars>>
    \/ LoopMissing /\ UNCHANGED <<callVars, ratioVars>>
    \/ LoopCalibrate /\ UNCHANGED <<callVars, ratioVars>>
    \/ LoopRaises /\ UNCHANGED <<callVars, ratioVars>>
    \/ Reduce /\ UNCHANGED <<callVars, ratioVars>>
Spec == Init /\ [][Next]_vars

\* one call of a function of calibrate.py
InitCall == MainInit /\ CallInit /\ RatioIdle
NextCall ==
    \/ CallExponential /\ UNCHANGED <<mainVars, ratioVars>>
    \/ CallLinear /\ UNCHANGED <<mainVars, ratioVars>>
    \/ CallAnnualIrradiance /\ UNCHANGED <<mainVars, ratioVars>>
SpecCall == InitCall /\ [][NextCall]_vars

\* calibrate() of sol-val.py
InitRatio == MainInit /\ CallIdle /\ RatioInit
NextRatio ==
    \/ CapacityRatio /\ UNCHANGED <<mainVars, callVars>>
    \/ NaiveEstimate /\ UNCHANGED <<mainVars, callVars>>
    \/ CalibrationFactor /\ UNCHANGED <<mainVars, callVars>>
    \/ FetchFails /\ UNCHANGED <<mainVars, callVars>>
SpecRatio == InitRatio /\ [][NextRatio]_vars

-----------------------------------------------------------------------------
(* Properties of main() of calibrate.py, checked under Spec *)

IsPositive(x) == RLt(Zero, x)

\* main() has entered the calibration loop
LoopEntered == pc \in {"loop", "reduce", "done"} \/ (pc = "raised" /\ DOMAIN H = CalibrationYears)

\* the years whose loop body has run to its end
LoopYearsDone ==
    IF pc \in {"reduce", "done"} THEN CalibrationYears
    ELSE IF LoopEntered THEN {y \in CalibrationYears : y < yr}
    ELSE {}

YearInputsPositive(y) ==
    IsPositive(cap[y - 1]) /\ IsPositive(cap[y]) /\ IsPositive(energy[y])

RowsOf(y) == {i \in 1..Len(report) : report[i].year = y}

\* C1: a calibration year with C_prev <= 0, C_curr <= 0 or E_y <= 0 is reported as
\* missing data, adds no K to the per-year results and does not end the batch; every
\* other year the loop has gone through has one result row with its two K, and the two
\* K lists hold exactly the K of those years.
C1_MissingYearSkipped ==
    /\ \A y \in LoopYearsDone :
          /\ Cardinality(RowsOf(y)) = 1
          /\ \A i \in RowsOf(y) :
                /\ report[i].missing <=> ~YearInputsPositive(y)
                /\ ~report[i].missing =>
                      /\ IsPositive(report[i].K_exp) /\ IsPositive(report[i].K_lin)
                      /\ \E j \in 1..Len(K_exp_list) :
                            /\ K_exp_list[j] = report[i].K_exp
                            /\ K_lin_list[j] = report[i].K_lin
    /\ Len(K_exp_list) = Cardinality({y \in LoopYearsDone : YearInputsPositive(y)})
    /\ Len(K_lin_list) = Len(K_exp_list)
    /\ (pc = "raised" /\ LoopEntered) => YearInputsPositive(yr)

\* a finished batch that skipped a year with C_prev = 0 and calibrated a later year
C1_Witness ==
    /\ pc = "done"
    /\ \E y \in CalibrationYears, z \in CalibrationYears :
          /\ y < z
          /\ cap[y - 1] = Zero
          /\ \E i \in RowsOf(y) : report[i].missing
          /\ \E i \in RowsOf(z) : ~report[i].missing

\* the failures of one year's data
PerYearFailures ==
    {"RuntimeError: No ODRE records", "RuntimeError: No irradiance data",
     "RuntimeError: Computed zero or negative denom", "RuntimeError: Denom=0"}

\* C2: a per-year failure (no register record, empty irradiance series, non-positive
\* integrated denominator) is recovered locally: it never ends the run, the batch goes
\* on to the next year and to the reduction.
C2_YearFailureRecovered == ~(pc = "raised" /\ err \in PerYearFailures)

CountBelow(xs, m) == Cardinality({i \in 1..Len(xs) : RLt(xs[i], m)})
CountUpTo(xs, m) == Cardinality({i \in 1..Len(xs) : RLeq(xs[i], m)})

\* m is the element at index len // 2 (0-based) of xs in ascending order
IsUpperMiddle(xs, m) ==
    /\ \E i \in 1..Len(xs) : xs[i] = m
    /\ CountBelow(xs, m) <= Len(xs) \div 2
    /\ CountUpTo(xs, m) >= (Len(xs) \div 2) + 1

\* C3: the median reported for each law is the element at index len // 2 of the
\* ascending-sorted list of that law's K: one of the list's own elements, the
\* upper-middle one (never an average) when the length is even; [1,2,3,4] gives 3.
C3_MedianUpperMiddle ==
    /\ pc = "done" =>
          /\ summary.has_exp = (K_exp_list # <<>>)
          /\ summary.has_lin = (K_lin_list # <<>>)
          /\ summary.has_exp => IsUpperMiddle(K_exp_list, summary.med_exp)
          /\ summary.has_lin => IsUpperMiddle(K_lin_list, summary.med_lin)
    /\ pc = "reduce" =>
          Median(<<Int2Rat(1), Int2Rat(2), Int2Rat(3), Int2Rat(4)>>) = Int2Rat(3)

\* a reduction over an even number of K whose two middle elements differ
C3_Witness ==
    /\ pc = "done"
    /\ Len(K_exp_list) = 2
    /\ RLt(K_exp_list[2], K_exp_list[1])
    /\ summary.med_exp = K_exp_list[1]

\* C10: annual_irradiance_per_kwp never returns a total for a series with no usable
\* sample, be it of length zero or made of missing samples only: every year that has
\* an H has a series with at least one present sample.
C10_EmptySeriesRejected ==
    \A y \in DOMAIN H : \E j \in 1..Len(archive[y]) : archive[y][j] # None

\* the rows of the years that were calibrated, in the order they were printed
ResultRows == SelectSeq(report, LAMBDA r : ~r.missing)

\* m is the arithmetic mean of the non-empty list xs
IsMeanOf(xs, m) == RMul(m, Int2Rat(Len(xs))) = RSum(xs)

\* C11: after any prefix of the batch the K_exponential list and the K_linear list have
\* the same length and their j-th entries are the two K of the same year (a year is in
\* both lists or in neither); the mean and the median of a law are those of that law's
\* own list, and a law's statistics are reported only when its list is non-empty.
C11_ListsAlignedStatsSeparate ==
    /\ Len(K_exp_list) = Len(K_lin_list)
    /\ Len(ResultRows) = Len(K_exp_list)
    /\ \A j \in 1..Len(ResultRows) :
          LET y == ResultRows[j].year
          IN  /\ K_exp_list[j] = ResultRows[j].K_exp
              /\ K_lin_list[j] = ResultRows[j].K_lin
              /\ K_exp_list[j] = RDiv(energy[y],
                    compute_K_exponential(cap[y - 1], cap[y], energy[y], archive[y]).denom)
              /\ K_lin_list[j] = RDiv(energy[y],
                    compute_K_linear(cap[y - 1], cap[y], energy[y], archive[y]).denom)
              /\ \A i \in 1..(j - 1) : ResultRows[i].year < y
    /\ pc # "done" => summary = NoSummary
    /\ pc = "done" =>
          /\ summary.has_exp <=> K_exp_list # <<>>
          /\ summary.has_lin <=> K_lin_list # <<>>
          /\ summary.has_exp =>
                /\ IsMeanOf(K_exp_list, summary.avg_exp)
                /\ IsUpperMiddle(K_exp_list, summary.med_exp)
          /\ summary.has_lin =>
                /\ IsMeanOf(K_lin_list, summary.avg_lin)
                /\ IsUpperMiddle(K_lin_list, summary.med_lin)

\* a reduction over a skipped year and a year on which the two laws give different K
C11_Witness ==
    /\ pc = "done"
    /\ \E i \in 1..Len(report) : report[i].missing
    /\ K_exp_list # <<>>
    /\ summary.avg_exp # summary.avg_lin
    /\ summary.med_exp # summary.med_lin

\* every order in which the calibration years can be processed
Orders ==
    LET n == Cardinality(CalibrationYears)
    IN  {o \in [1..n -> CalibrationYears] : \A i, j \in 1..n : o[i] = o[j] => i = j}

YearsOf(rows) == {rows[i].year : i \in 1..Len(rows)}

\* the inputs of year y: C_prev, C_curr, E_y and the year's irradiance series
InputsOf(y) == <<cap[y - 1], cap[y], energy[y], archive[y]>>

\* C12: the K of a year depends only on that year's own inputs (C_prev, C_curr, E_y and
\* its irradiance series), and the reduced result (the set of calibrated years, the
\* mean and the median of each law) is the same for every order in which the
\* calibration years are processed; a batch that an exception ends gives no reduced
\* result in any order.
C12_OrderIndependent ==
    LoopEntered =>
        /\ \A i, j \in 1..Len(ResultRows) :
              InputsOf(ResultRows[i].year) = InputsOf(ResultRows[j].year)
              => /\ ResultRows[i].K_exp = ResultRows[j].K_exp
                 /\ ResultRows[i].K_lin = ResultRows[j].K_lin
        /\ \A o \in Orders :
              LET run == LoopOver(o, Len(o))
              IN  /\ pc = "raised" => run.raised
                  /\ pc = "done" =>
                        /\ ~run.raised
                        /\ {run.years[i] : i \in 1..Len(run.years)} = YearsOf(ResultRows)
                        /\ \A i \in 1..Len(run.years), j \in 1..Len(ResultRows) :
                              run.years[i] = ResultRows[j].year
                              => /\ run.K_exp[i] = ResultRows[j].K_exp
                                 /\ run.K_lin[i] = ResultRows[j].K_lin
                        /\ Reduction(run.K_exp, run.K_lin) = summary

\* a finished batch of at least two calibrated years whose K differ
C12_Witness ==
    /\ pc = "done"
    /\ Len(K_exp_list) >= 2
    /\ K_exp_list[1] # K_exp_list[2]
    /\ K_lin_list[1] # K_lin_list[2]

-----------------------------------------------------------------------------
(* Properties of the functions of calibrate.py, checked under SpecCall *)

KFunctions == {"compute_K_exponential", "compute_K_linear"}

\* the call went through its integration loop
Integrated ==
    /\ ret.fn \in KFunctions
    /\ ret.err \notin {"ValueError: Non-positive capacity", "ValueError: Non-positive energy",
                       "RuntimeError: No irradiance data"}

\* capacity of the called law at fraction t of the year
CapacityOfCall(t) ==
    IF ret.fn = "compute_K_exponential"
    THEN ExponentialCapacity(arg.C_prev_kw, GrowthRate(arg.C_prev_kw, arg.C_curr_kw), t)
    ELSE LinearCapacity(arg.C_prev_kw, arg.C_curr_kw, t)

\* what the sample at raw position j (1-based) of the call's series weighs, with
\* tau = (j - 1) / (N - 1) over the whole length N of the series
RawIndexTerm(j) ==
    LET N == Len(arg.gti)
        t == IF N > 1 THEN Rat(j - 1, N - 1) ELSE Zero
    IN  IF arg.gti[j] = None THEN Zero
        ELSE RMul(CapacityOfCall(t), Rat(arg.gti[j][1], 1000))

\* the denominator the called function computes for series g
DenomOfCall(g) ==
    IF ret.fn = "compute_K_exponential"
    THEN compute_K_exponential(arg.C_prev_kw, arg.C_curr_kw, arg.E_kwh, g).denom
    ELSE compute_K_linear(arg.C_prev_kw, arg.C_curr_kw, arg.E_kwh, g).denom

\* C4: under both laws a present sample at raw index i of a series of total length N
\* (missing samples included) is weighted by the capacity at tau = i / (N - 1), tau = 0
\* when N = 1; replacing any sample by a missing marker takes away that sample's own
\* term and leaves the tau and the weight of every other sample unchanged.
C4_TauFromRawIndex ==
    Integrated =>
        /\ ret.denom = RSum([j \in 1..Len(arg.gti) |-> RawIndexTerm(j)])
        /\ \A j \in 1..Len(arg.gti) :
              RAdd(DenomOfCall([arg.gti EXCEPT ![j] = None]), RawIndexTerm(j)) = ret.denom

\* an integration over a growing capacity with a missing sample before present ones
C4_Witness ==
    /\ Integrated
    /\ ~ret.raised
    /\ arg.C_prev_kw # arg.C_curr_kw
    /\ Len(arg.gti) = 3
    /\ arg.gti[1] = None
    /\ arg.gti[2] = Some(1000)
    /\ arg.gti[3] = Some(500)

AllThousand(g) == g # <<>> /\ \A j \in 1..Len(g) : g[j] = Some(1000)

\* C5: for N samples all equal to 1000 W/m2, none missing, and C_start = C_end = C > 0
\* the weighted integral is C * N under both laws, and K = E_y / (C * N).
C5_ConstantSeriesIntegral ==
    (/\ Integrated
     /\ AllThousand(arg.gti)
     /\ arg.C_prev_kw = arg.C_curr_kw
     /\ IsPositive(arg.C_prev_kw))
    => /\ ret.denom = RMul(arg.C_prev_kw, Int2Rat(Len(arg.gti)))
       /\ ~ret.raised
       /\ ret.value = RDiv(arg.E_kwh, RMul(arg.C_prev_kw, Int2Rat(Len(arg.gti))))

\* the exponential law over a constant capacity above 1 kW and more than one sample
C5_Witness ==
    /\ ret.fn = "compute_K_exponential"
    /\ ~ret.raised
    /\ AllThousand(arg.gti)
    /\ Len(arg.gti) >= 2
    /\ arg.C_prev_kw = arg.C_curr_kw
    /\ RLt(Int2Rat(1), arg.C_prev_kw)

\* C6: a K computation (exponential or linear) that returns a value returns a strictly
\* positive K; a weighted integral <= 0 is an error, never K = 0 or a negative K.
C6_ReturnedKPositive ==
    (ret.fn \in KFunctions /\ ~ret.raised) => IsPositive(ret.value)

\* C7: with C_start <= 0 or C_end <= 0 the computation fails (invalid capacity) under
\* the linear law as under the exponential law: no K is returned from a computation
\* that was given a non-positive capacity endpoint.
C7_NonPositiveCapacityRejected ==
    (/\ ret.fn \in KFunctions
     /\ RLeq(arg.C_prev_kw, Zero) \/ RLeq(arg.C_curr_kw, Zero))
    => ret.raised

-----------------------------------------------------------------------------
(* Properties of calibrate() of sol-val.py, checked under SpecRatio *)

\* C8: the ratio calibration fails whenever C_region <= 0 and whenever
\* E_loc_naive = R_cap * E_region <= 0; in neither case is a K produced.
C8_NonPositiveDenominatorsRejected ==
    /\ rpc \in {"eco2mix", "enedis", "done"} => IsPositive(p_idf_total)
    /\ rpc = "done" => IsPositive(e_ant_naive)

\* C9: for positive C_loc, C_region, E_region and E_loc_trusted the ratio calibration
\* yields R_cap = C_loc / C_region, E_loc_naive = R_cap * E_region and
\* K = E_loc_trusted / E_loc_naive, so that K * R_cap * E_region = E_loc_trusted;
\* 100, 10000, 5000, 60 give R_cap = 0.01, E_loc_naive = 50, K = 1.2.
C9_RatioCalibration ==
    (/\ rpc = "done"
     /\ IsPositive(p_ant_total) /\ IsPositive(p_idf_total)
     /\ IsPositive(e_idf_total_eco) /\ IsPositive(e_ant_enedis))
    => /\ R_cap = Rat(p_ant_total[1] * p_idf_total[2], p_ant_total[2] * p_idf_total[1])
       /\ e_ant_naive = Rat(R_cap[1] * e_idf_total_eco[1], R_cap[2] * e_idf_total_eco[2])
       /\ K = Rat(e_ant_enedis[1] * e_ant_naive[2], e_ant_enedis[2] * e_ant_naive[1])
       /\ RMul(RMul(K, R_cap), e_idf_total_eco) = e_ant_enedis
       /\ (/\ p_ant_total = <<100, 1>> /\ p_idf_total = <<10000, 1>>
           /\ e_idf_total_eco = <<5000, 1>> /\ e_ant_enedis = <<60, 1>>)
          => (R_cap = <<1, 100>> /\ e_ant_naive = <<50, 1>> /\ K = <<6, 5>>)

\* the calibration of 100 kW in 10000 kW, 5000 MWh in the region, 60 MWh trusted
C9_Witness ==
    /\ rpc = "done"
    /\ p_ant_total = <<100, 1>>
    /\ p_idf_total = <<10000, 1>>
    /\ e_idf_total_eco = <<5000, 1>>
    /\ e_ant_enedis = <<60, 1>>
    /\ K = <<6, 5>>

====
